---- MODULE Spec2Model ----
(***************************************************************************)
(* Model of src/main.rs: the ring modulator ring_mod.                      *)
(*                                                                         *)
(* f32 values are modelled as binary floating-point numbers with           *)
(* round-to-nearest-even: a finite value is an integer count of the        *)
(* quantum 2^-Frac that has at most Prec significant bits, and the         *)
(* specials NaN, +Inf and -Inf are kept.  Rust's f32 is the format with    *)
(* Prec = 24; the model uses a narrower format of the same shape so that   *)
(* every rounding the code performs (i32 -> f32, the sum inside            *)
(* rem_euclid, products, quotients) also happens in the model.  Signed     *)
(* zero is not kept apart: ring_mod never divides by a computed zero and   *)
(* -0.0 casts to 0.                                                        *)
(***************************************************************************)
EXTENDS Integers, Sequences, FiniteSets, TLC

\* ------------------------------------------------------------------ bounds
\* significant bits of the modelled float format (f32: 24)
Prec == 7
\* the finest quantum of the modelled format is 2^-Frac
Frac == 7
\* largest sample_length tried
MaxLen == 3
\* longest input signal tried
MaxSignal == 2

\* ------------------------------------------------------- float arithmetic
Unit == 2^Frac
Lim == 2^Prec

Abs(x) == IF x < 0 THEN -x ELSE x
Sgn(x) == IF x < 0 THEN -1 ELSE IF x > 0 THEN 1 ELSE 0
Min(a, b) == IF a <= b THEN a ELSE b

\* the spacing of representable values around magnitude a (in quanta)
RECURSIVE QuantumOf(_)
QuantumOf(a) == IF a < Lim THEN 1 ELSE 2 * QuantumOf(a \div 2)

\* n / D rounded to the nearest integer, ties to even (n >= 0, D > 0)
RNE(n, D) ==
  LET fl == n \div D
      r == n - fl * D
  IN IF 2 * r < D THEN fl
     ELSE IF 2 * r > D THEN fl + 1
     ELSE IF fl % 2 = 0 THEN fl ELSE fl + 1

\* the rational n / d (in quanta, d > 0) rounded to a representable value
RoundQ(n, d) ==
  LET a == Abs(n)
      q == QuantumOf(a \div d)
  IN Sgn(n) * RNE(a, d * q) * q

Fin(v) == [k |-> "fin", v |-> v]
NaN == [k |-> "nan", v |-> 0]
Inf(s) == [k |-> "inf", v |-> s]

IsNaN(a) == a.k = "nan"
IsFin(a) == a.k = "fin"
IsInf(a) == a.k = "inf"

\* the literal n / d as an f32
Lit(n, d) == Fin(RoundQ(n * Unit, d))

FNeg(a) == IF IsNaN(a) THEN NaN ELSE [a EXCEPT !.v = -a.v]
FAbs(a) == IF IsNaN(a) THEN NaN ELSE [a EXCEPT !.v = Abs(a.v)]

FAdd(a, b) ==
  IF IsNaN(a) \/ IsNaN(b) THEN NaN
  ELSE IF IsInf(a) /\ IsInf(b) THEN (IF a.v = b.v THEN a ELSE NaN)
  ELSE IF IsInf(a) THEN a
  ELSE IF IsInf(b) THEN b
  ELSE Fin(RoundQ(a.v + b.v, 1))

FSub(a, b) == FAdd(a, FNeg(b))

FMul(a, b) ==
  IF IsNaN(a) \/ IsNaN(b) THEN NaN
  ELSE IF IsInf(a) \/ IsInf(b)
       THEN (IF a.v = 0 \/ b.v = 0 THEN NaN ELSE Inf(Sgn(a.v) * Sgn(b.v)))
  ELSE Fin(RoundQ(a.v * b.v, Unit))

FDiv(a, b) ==
  IF IsNaN(a) \/ IsNaN(b) THEN NaN
  ELSE IF IsInf(a) THEN (IF IsInf(b) THEN NaN
                         ELSE Inf(a.v * (IF b.v < 0 THEN -1 ELSE 1)))
  ELSE IF IsInf(b) THEN Fin(0)
  ELSE IF b.v = 0 THEN (IF a.v = 0 THEN NaN ELSE Inf(Sgn(a.v)))
  ELSE Fin(Sgn(b.v) * RoundQ(a.v * Unit, Abs(b.v)))

\* a < b and a >= b on f32: false as soon as one side is NaN
FLt(a, b) ==
  IF IsNaN(a) \/ IsNaN(b) THEN FALSE
  ELSE IF IsInf(a) THEN a.v < 0 /\ ~(IsInf(b) /\ b.v < 0)
  ELSE IF IsInf(b) THEN b.v > 0
  ELSE a.v < b.v

FGe(a, b) ==
  IF IsNaN(a) \/ IsNaN(b) THEN FALSE
  ELSE ~FLt(a, b)

\* the % operator of f32 (fmod): exact, with the sign of the dividend
FRem(a, b) ==
  IF IsNaN(a) \/ IsNaN(b) \/ IsInf(a) THEN NaN
  ELSE IF IsInf(b) THEN a
  ELSE IF b.v = 0 THEN NaN
  ELSE Fin(Sgn(a.v) * (Abs(a.v) % Abs(b.v)))

\* f32::rem_euclid: r = self % rhs; if r < 0.0 { r + rhs.abs() } else { r }
RemEuclid(a, rhs) ==
  LET r == FRem(a, rhs)
  IN IF FLt(r, Fin(0)) THEN FAdd(r, FAbs(rhs)) ELSE r

\* i32, u32 or u8 `as f32` / f32::from: the nearest f32
F32FromInt(n) == Fin(RoundQ(n * Unit, 1))

I32Max == 2147483647
I32Min == -2147483647 - 1

\* the cast as it would be if it rounded to the nearest integer
ToI32Rounding(a) ==
  IF IsNaN(a) THEN 0
  ELSE IF IsInf(a) THEN (IF a.v > 0 THEN I32Max ELSE I32Min)
  ELSE Sgn(a.v) * ((2 * Abs(a.v) + Unit) \div (2 * Unit))

\* f32 `as i32`: NaN gives 0, the rest truncates toward zero and saturates
ToI32(a) ==
  IF IsNaN(a) THEN 0
  ELSE IF IsInf(a) THEN (IF a.v > 0 THEN I32Max ELSE I32Min)
  ELSE LET t == Sgn(a.v) * (Abs(a.v) \div Unit)
       IN IF t > I32Max THEN I32Max ELSE IF t < I32Min THEN I32Min ELSE t

\* pi * 2^16, and pi in quanta before it is rounded to an f32
PiNum == 205887
PiFine == RNE(PiNum * Unit, 65536)

\* std::f32::consts::PI and 2.0 * PI
PI == Fin(RoundQ(PiNum * Unit, 65536))
TwoPi == FMul(Lit(2, 1), PI)

\* sin on [0, pi] in quanta (Bhaskara's rational approximation of the sine,
\* whose error is below the quantum), rounded to an f32
SinHalf(x) ==
  LET p == x * (PiFine - x)
  IN RoundQ(16 * p * Unit, 5 * PiFine * PiFine - 4 * p)

\* f32::sin
FSin(a) ==
  IF ~IsFin(a) THEN NaN
  ELSE LET y == Abs(a.v) % (2 * PiFine)
           s == IF y <= PiFine THEN SinHalf(y) ELSE -SinHalf(y - PiFine)
       IN Fin(Sgn(a.v) * s)

\* ------------------------------------------------------------- the inputs
SampleRates == {0, 4, 8}
Mixes == {0, 71, 100, 200}
Amounts == {Lit(0, 1), Lit(67, 10)}
Rates == {Lit(1, 1), Lit(-1, 64)}
Frequencies == {Lit(1, 1), Lit(2, 1)}
Waveforms == {"Sinusoidal", "Square"}
\* i32 samples: small ones of both signs and one that no f32 holds exactly
Samples == {-5, 5, Lim + 1}

RingModParams ==
  [mix : Mixes, frequency : Frequencies, amount : Amounts,
   lfo_waveform : Waveforms, rate : Rates]

RECURSIVE SeqsUpTo(_, _)
SeqsUpTo(S, n) ==
  IF n = 0 THEN {<< >>}
  ELSE LET shorter == SeqsUpTo(S, n - 1)
       IN shorter \cup {Append(s, x) : s \in {t \in shorter : Len(t) = n - 1}, x \in S}

\* ------------------------------------------------------------------ state
VARIABLES
  sample_rate,        \* argument: u32
  sample_length,      \* argument: usize
  signal,             \* argument: the whole input, in order
  params,             \* argument: &RingModParams
  res,                \* the output vector
  mix,                \* normalized mix
  amount,             \* normalized amount
  signal_iter,        \* what the iterator has not yielded yet
  lfo_phase,
  carrier_phase,
  lfo_increment,
  i,                  \* iterations of the for loop begun
  lfo,                \* the loop body's locals, as of the last iteration
  carrier_increment,
  carrier,
  stdout,             \* lines printed
  pc

vars == <<sample_rate, sample_length, signal, params, res, mix, amount,
          signal_iter, lfo_phase, carrier_phase, lfo_increment, i, lfo,
          carrier_increment, carrier, stdout, pc>>

args == <<sample_rate, sample_length, signal, params>>

Init ==
  /\ sample_rate \in SampleRates
  /\ sample_length \in 0..MaxLen
  /\ signal \in SeqsUpTo(Samples, MaxSignal)
  /\ params \in RingModParams
  /\ res = << >>
  /\ mix = Fin(0)
  /\ amount = Fin(0)
  /\ signal_iter = << >>
  /\ lfo_phase = Fin(0)
  /\ carrier_phase = Fin(0)
  /\ lfo_increment = Fin(0)
  /\ i = 0
  /\ lfo = Fin(0)
  /\ carrier_increment = Fin(0)
  /\ carrier = Fin(0)
  /\ stdout = << >>
  /\ pc = "start"

\* ------------------------------------------------------------ the program
\* 2.0 * PI * params.rate / sample_rate as f32
LfoIncrement(p, sr) ==
  FDiv(FMul(FMul(Lit(2, 1), PI), p.rate), F32FromInt(sr))

\* (phase + increment).rem_euclid(2.0 * PI)
Advance(phase, increment) ==
  RemEuclid(FAdd(phase, increment), FMul(Lit(2, 1), PI))

\* the LFO as it would be with a true +1/-1 square wave
LfoValueBipolar(waveform, phase) ==
  IF waveform = "Sinusoidal" THEN FSin(phase)
  ELSE IF FGe(FSin(phase), Fin(0)) THEN Lit(1, 1) ELSE Lit(-1, 1)

\* match params.lfo_waveform { ... }
LfoValue(waveform, phase) ==
  IF waveform = "Sinusoidal" THEN FSin(phase)
  ELSE IF FGe(FSin(phase), Fin(0)) THEN Lit(1, 1) ELSE Lit(0, 1)

\* the carrier frequency as it would be with the amount left out
InstFrequencyNoAmount(p, amt, l) ==
  FAdd(p.frequency, FMul(l, FMul(p.frequency, Lit(3, 1))))

\* params.frequency + lfo * (params.frequency * 3.0 * amount)
InstFrequency(p, amt, l) ==
  FAdd(p.frequency, FMul(l, FMul(FMul(p.frequency, Lit(3, 1)), amt)))

\* 2.0 * PI * (...) / sample_rate as f32
CarrierIncrement(p, amt, l, sr) ==
  FDiv(FMul(FMul(Lit(2, 1), PI), InstFrequency(p, amt, l)), F32FromInt(sr))

\* the mix as it would be with the dry and wet weights exchanged
OutSampleSwapped(sample, c, m) ==
  LET s == F32FromInt(sample)
  IN FAdd(FMul(s, m), FMul(FMul(s, c), FSub(Lit(1, 1), m)))

\* (sample * (1.0 - mix)) + (sample * carrier * mix), with sample as f32
OutSample(sample, c, m) ==
  LET s == F32FromInt(sample)
  IN FAdd(FMul(s, FSub(Lit(1, 1), m)), FMul(FMul(s, c), m))

\* lines 41-53: the locals before the loop
Setup ==
  /\ pc = "start"
  /\ res' = << >>
  /\ mix' = FDiv(F32FromInt(params.mix), Lit(100, 1))
  /\ amount' = FDiv(params.amount, Lit(10, 1))
  /\ signal_iter' = signal
  /\ lfo_phase' = Fin(0)
  /\ carrier_phase' = Fin(0)
  /\ lfo_increment' = LfoIncrement(params, sample_rate)
  /\ i' = 0
  /\ pc' = "loop"
  /\ UNCHANGED <<args, lfo, carrier_increment, carrier, stdout>>

\* lines 56-76: both oscillators advance, whether or not a sample is left
Oscillate ==
  /\ lfo_phase' = Advance(lfo_phase, lfo_increment)
  /\ lfo' = LfoValue(params.lfo_waveform, lfo_phase')
  /\ carrier_increment' = CarrierIncrement(params, amount, lfo', sample_rate)
  /\ carrier_phase' = Advance(carrier_phase, carrier_increment')
  /\ carrier' = FSin(carrier_phase')

\* the iteration as it would be if the sample met the carrier of the
\* previous iteration (the phases advanced after the sample is mixed)
IterateStaleCarrier ==
  /\ pc = "loop"
  /\ i < sample_length
  /\ signal_iter # << >>
  /\ Oscillate
  /\ res' = Append(res, ToI32(OutSample(Head(signal_iter), FSin(carrier_phase), mix)))
  /\ signal_iter' = Tail(signal_iter)
  /\ i' = i + 1
  /\ UNCHANGED <<args, mix, amount, lfo_increment, stdout, pc>>

\* one iteration that finds a sample: lines 56-85
Iterate ==
  /\ pc = "loop"
  /\ i < sample_length
  /\ signal_iter # << >>
  /\ Oscillate
  /\ res' = Append(res, ToI32(OutSample(Head(signal_iter), carrier', mix)))
  /\ signal_iter' = Tail(signal_iter)
  /\ i' = i + 1
  /\ UNCHANGED <<args, mix, amount, lfo_increment, stdout, pc>>

\* the exhausted iteration as it would be if it padded with silence
ExhaustPadSilence ==
  /\ pc = "loop"
  /\ i < sample_length
  /\ signal_iter = << >>
  /\ Oscillate
  /\ res' = Append(res, 0)
  /\ i' = i + 1
  /\ UNCHANGED <<args, mix, amount, lfo_increment, signal_iter, stdout, pc>>

\* the exhausted iteration as it would be without the break
ExhaustNoBreak ==
  /\ pc = "loop"
  /\ i < sample_length
  /\ signal_iter = << >>
  /\ Oscillate
  /\ stdout' = Append(stdout, "Signal processing may be incomplete")
  /\ i' = i + 1
  /\ UNCHANGED <<args, mix, amount, lfo_increment, res, signal_iter, pc>>

\* one iteration that finds the iterator empty: lines 56-76, 86-89
Exhaust ==
  /\ pc = "loop"
  /\ i < sample_length
  /\ signal_iter = << >>
  /\ Oscillate
  /\ stdout' = Append(stdout, "Signal processing may be incomplete")
  /\ i' = i + 1
  /\ pc' = "done"
  /\ UNCHANGED <<args, mix, amount, lfo_increment, res, signal_iter>>

\* the range 0..sample_length is used up: line 92
Return ==
  /\ pc = "loop"
  /\ i = sample_length
  /\ pc' = "done"
  /\ UNCHANGED <<args, res, mix, amount, signal_iter, lfo_phase, carrier_phase,
                 lfo_increment, i, lfo, carrier_increment, carrier, stdout>>

Next == Setup \/ Iterate \/ Exhaust \/ Return

Spec == Init /\ [][Next]_vars

\* ---------------------------------------------------- reference functions
\* the two phases after k iterations of the loop under parameters p,
\* unfolded from phase 0 (lines 50-74)
PhaseStep(p, prev) ==
  LET l == Advance(prev.l, LfoIncrement(p, sample_rate))
      lv == LfoValue(p.lfo_waveform, l)
      ci == CarrierIncrement(p, FDiv(p.amount, Lit(10, 1)), lv, sample_rate)
  IN [l |-> l, c |-> Advance(prev.c, ci)]

\* the phases after iterations 1..n, in order
RECURSIVE PhaseSeq(_, _)
PhaseSeq(p, n) ==
  IF n = 0 THEN << >>
  ELSE LET s == PhaseSeq(p, n - 1)
           prev == IF n = 1 THEN [l |-> Fin(0), c |-> Fin(0)] ELSE s[n - 1]
       IN Append(s, PhaseStep(p, prev))

PhaseAfter(p, k) ==
  IF k = 0 THEN [l |-> Fin(0), c |-> Fin(0)] ELSE PhaseSeq(p, k)[k]

\* mix / 100 and the number of samples a run is due to produce
MixFraction(p) == FDiv(F32FromInt(p.mix), Lit(100, 1))
DueLength == Min(sample_length, Len(signal))

\* the output of the first n iterations of a run under parameters p, by the
\* mix law: sample k with the carrier taken after k advances
MixLawOutput(p, n) ==
  LET ph == PhaseSeq(p, n)
  IN [k \in 1..n |->
        ToI32(OutSample(signal[k], FSin(ph[k].c), MixFraction(p)))]

\* ----------------------------------------------------------------- claims
\* C1: for sampleRate > 0 the returned sequence has length exactly
\* min(sample_length, len(signal)); the output never grows past that length
\* and the loop is over as soon as the input has run out (no padding).
C1_LengthLaw ==
  sample_rate > 0 =>
    /\ Len(res) <= DueLength
    /\ pc = "done" => Len(res) = DueLength
    /\ stdout # << >> => pc = "done"

C1_Witness ==
  /\ pc = "done"
  /\ sample_rate > 0
  /\ 0 < Len(signal)
  /\ Len(signal) < sample_length
  /\ Len(res) = Len(signal)

Representable(x) == F32FromInt(x) = Fin(x * Unit)

InCycle(ph) == FGe(ph, Fin(0)) /\ FLt(ph, TwoPi)

\* C3: for sampleRate > 0, after every loop iteration both phases are
\* >= 0 and strictly below 2 pi.
C3_PhaseBounded ==
  sample_rate > 0 => (InCycle(lfo_phase) /\ InCycle(carrier_phase))

\* C4: output k is the truncation of the mix law applied to input k with the
\* carrier taken after k advances of both phases, and the iterator has
\* yielded exactly one sample per output sample, in order.
C4_MixLawInOrder ==
  pc # "start" =>
    /\ res = MixLawOutput(params, Len(res))
    /\ signal_iter = SubSeq(signal, Len(res) + 1, Len(signal))
    /\ Len(res) <= Len(signal)

C4_Witness ==
  /\ pc = "done"
  /\ Len(res) = 2
  /\ sample_rate > 0
  /\ params.mix = 71
  /\ res[1] # signal[1]
  /\ res[2] # res[1]
  /\ signal[1] = signal[2]

\* C5: a call with sampleRate = 0 is turned down before the first loop
\* iteration: no iteration begins and no output sample is produced.
C5_FailFast ==
  sample_rate = 0 => (i = 0 /\ res = << >>)

\* C6: the run returns normally; it has printed the truncation diagnostic
\* exactly once, and holds the len(signal) samples of the valid prefix, if
\* len(signal) < sample_length, and has printed nothing otherwise.
C6_TruncationDiagnostic ==
  /\ Len(stdout) <= 1
  /\ pc # "done" => stdout = << >>
  /\ pc = "done" =>
       IF Len(signal) < sample_length
       THEN /\ stdout = <<"Signal processing may be incomplete">>
            /\ Len(res) = Len(signal)
       ELSE stdout = << >>

C6_Witness ==
  /\ pc = "done"
  /\ Len(signal) + 2 <= sample_length
  /\ Len(signal) > 0
  /\ Len(stdout) = 1

\* the carrier increment that goes with carrier frequency f
IncrementOf(f) ==
  FDiv(FMul(FMul(Lit(2, 1), PI), f), F32FromInt(sample_rate))

BaseFrequency == params.frequency
HighFrequency ==
  FAdd(params.frequency, FMul(FMul(params.frequency, Lit(3, 1)), amount))

OtherWaveform(p) ==
  [p EXCEPT !.lfo_waveform = IF @ = "Square" THEN "Sinusoidal" ELSE "Square"]

\* C8: with amount = 0 the output is, sample for sample, the output of the
\* run that differs only in the LFO waveform.
C8_ZeroAmount ==
  params.amount = Lit(0, 1) =>
    res = MixLawOutput(OtherWaveform(params), Len(res))

C8_Witness ==
  /\ pc = "done"
  /\ params.amount = Lit(0, 1)
  /\ params.lfo_waveform = "Sinusoidal"
  /\ sample_rate > 0
  /\ params.mix = 100
  /\ Len(res) = 2
  /\ lfo \notin {Lit(0, 1), Lit(1, 1)}
  /\ res[2] # 0

\* the carrier phase after k additions of the constant increment
\* 2 pi frequency / sampleRate, each followed by the wrap
RECURSIVE ConstPhase(_)
ConstPhase(k) ==
  IF k = 0 THEN Fin(0)
  ELSE Advance(ConstPhase(k - 1), IncrementOf(params.frequency))

\* input[k] sin(carrierPhase_k) for k = 1..n
RECURSIVE WetSeq(_)
WetSeq(n) ==
  IF n = 0 THEN << >>
  ELSE LET s == WetSeq(n - 1)
       IN Append(s, FMul(F32FromInt(signal[n]), FSin(ConstPhase(n))))

\* round(x) and trunc(x) of an f32 as integers
RoundNearest(a) ==
  IF ~IsFin(a) THEN 0 ELSE Sgn(a.v) * ((2 * Abs(a.v) + Unit) \div (2 * Unit))
Truncate(a) ==
  IF ~IsFin(a) THEN 0 ELSE Sgn(a.v) * (Abs(a.v) \div Unit)

WetSample(k) == WetSeq(k)[k]

\* C9 as stated: with mix = 100 and amount = 0, output k is
\* round(input[k] sin(carrierPhase_k)).
C9_FullWetRound ==
  (params.mix = 100 /\ params.amount = Lit(0, 1)) =>
    \A k \in 1..Len(res) : res[k] = RoundNearest(WetSample(k))

\* C9 amended: with mix = 100 and amount = 0, output k is
\* input[k] sin(carrierPhase_k) truncated toward zero.
C9_FullWetTruncate ==
  (params.mix = 100 /\ params.amount = Lit(0, 1)) =>
    \A k \in 1..Len(res) : res[k] = Truncate(WetSample(k))

C9_Witness ==
  /\ pc = "done"
  /\ params.mix = 100
  /\ params.amount = Lit(0, 1)
  /\ sample_rate > 0
  /\ Len(res) = 2
  /\ \E k \in 1..2 : res[k] # RoundNearest(WetSample(k))
  /\ \E k \in 1..2 : res[k] < 0

UnitInterval(a) == FGe(a, Fin(0)) /\ FGe(Lit(1, 1), a)

\* C10: the normalized mix and amount used in the loop lie in [0, 1] and no
\* output sample is larger in magnitude than its input sample.
C10_Crossfade ==
  i > 0 =>
    /\ UnitInterval(mix)
    /\ UnitInterval(amount)
    /\ \A k \in 1..Len(res) : Abs(res[k]) <= Abs(signal[k])

====
